---- MODULE Spec2Model ----
(***************************************************************************)
(* Prompt Manager plugin (lefinite/obsidian-prompt-manager).               *)
(*                                                                         *)
(* Four state machines share this module:                                  *)
(*   SpecParse      the version parser, PromptView.extractPromptData       *)
(*   SpecWorkspace  the plugin shell, PromptManagerPlugin.activateView     *)
(*   Spec           one PromptView: refresh, render, search, toggle, New   *)
(*   SpecRace       its refreshes racing while vault files are deleted     *)
(*                                                                         *)
(* Text is a sequence of one-character strings, so that the regular        *)
(* expression, trim, toLowerCase and includes are computed on characters.  *)
(***************************************************************************)
EXTENDS Integers, Sequences, FiniteSets, TLC

VARIABLES
    \* ---- SpecParse
    content,        \* the document text handed to extractPromptData
    parsed,         \* its return value, <<>> before the call
    \* ---- SpecWorkspace
    leaves,         \* leaf id -> "none" | "empty" | the hosted view's getViewType()
    calls,          \* activateView invocations suspended at `await setViewState`
    revealed,       \* the leaf last passed to workspace.revealLeaf, 0 if none
    \* ---- Spec (one PromptView and the vault behind it)
    settings,       \* plugin.settings
    vault,          \* the files of the vault, [path, text], in getFiles() order
    opened,         \* onOpen has run: the top container and its handlers exist
    prompts,        \* PromptView.prompts
    viewType,       \* PromptView.viewType
    searchValue,    \* searchInput.value
    dom,            \* the rendered .prompt-content: its mode and its rows/cards
    handlers,       \* async handlers in flight, ordered by the start of their refresh
    notice,         \* the Notice the last step put on screen: <<>> or <<message>>
    listed,         \* history: the mdFiles listing behind the current prompts
    lastDone        \* history: what the refresh that completed last produced

parseVars == <<content, parsed>>
wsVars    == <<leaves, calls, revealed>>
viewVars  == <<settings, vault, opened, prompts, viewType, searchValue, dom,
               handlers, notice, listed, lastDone>>
vars      == <<content, parsed, leaves, calls, revealed, settings, vault, opened,
               prompts, viewType, searchValue, dom, handlers, notice, listed,
               lastDone>>

(***************************************************************************)
(* Characters and strings                                                  *)
(***************************************************************************)
\* JavaScript's \s, restricted to the white space the model's texts use.
Whitespace == {" ", "\n", "\t", "\r"}

\* JavaScript's \d.
Digits == {"0", "1", "2", "3", "4", "5", "6", "7", "8", "9"}

\* The literal `### Version` of the regular expression.
HEADING == <<"#", "#", "#", " ", "V", "e", "r", "s", "i", "o", "n">>

\* Whether pattern p occurs in s at (1-based) position i.
StartsWithAt(s, p, i) ==
    /\ i >= 1
    /\ i + Len(p) - 1 <= Len(s)
    /\ SubSeq(s, i, i + Len(p) - 1) = p

\* The first position >= i of s whose character is not in set (Len(s)+1 if none):
\* the end of a greedy `x+` run that started at i.
RECURSIVE SkipWhile(_, _, _)
SkipWhile(s, i, set) ==
    IF i <= Len(s) /\ s[i] \in set THEN SkipWhile(s, i + 1, set) ELSE i

\* String.prototype.includes.
Includes(text, term) ==
    \E i \in 1..(Len(text) - Len(term) + 1) : SubSeq(text, i, i + Len(term) - 1) = term

UpperToLower ==
    [c \in {"A", "B", "C", "D", "E", "F", "N", "V"} |->
        CASE c = "A" -> "a" [] c = "B" -> "b" [] c = "C" -> "c" [] c = "D" -> "d"
          [] c = "E" -> "e" [] c = "F" -> "f" [] c = "N" -> "n" [] c = "V" -> "v"]

\* String.prototype.toLowerCase, on the letters the model's texts use.
ToLowerCase(s) ==
    [i \in 1..Len(s) |-> IF s[i] \in DOMAIN UpperToLower THEN UpperToLower[s[i]] ELSE s[i]]

\* String.prototype.trim.
RECURSIVE TrimEnd(_)
TrimEnd(s) ==
    IF Len(s) > 0 /\ s[Len(s)] \in Whitespace THEN TrimEnd(SubSeq(s, 1, Len(s) - 1)) ELSE s

Trim(s) ==
    LET t == TrimEnd(s)
        k == SkipWhile(t, 1, Whitespace)
    IN  SubSeq(t, k, Len(t))

\* Array.prototype.join.
RECURSIVE Join(_, _)
Join(parts, sep) ==
    IF Len(parts) = 0 THEN <<>>
    ELSE IF Len(parts) = 1 THEN parts[1]
    ELSE parts[1] \o sep \o Join(Tail(parts), sep)

(***************************************************************************)
(* The version parser                                                      *)
(*   /### Version\s+(\d+(?:\.\d+)?)\n([\s\S]*?)(?=### Version|\z)/g         *)
(***************************************************************************)
\* The lookahead (?=### Version|\z) at position k. The pattern has no `u` flag, so
\* `\z` is an identity escape: it matches the letter z, not the end of the text.
LookaheadAt(s, k) ==
    \/ StartsWithAt(s, HEADING, k)
    \/ (k <= Len(s) /\ s[k] = "z")

\* The least k >= from at which the lookahead holds, 0 if there is none: where the
\* lazy body [\s\S]*? stops.
RECURSIVE LazyBodyEnd(_, _)
LazyBodyEnd(s, from) ==
    IF from > Len(s) + 1 THEN 0
    ELSE IF LookaheadAt(s, from) THEN from
    ELSE LazyBodyEnd(s, from + 1)

\* One attempt of the pattern at position i. The greedy runs are maximal: giving
\* back white space or digits leaves a character the next item cannot match. The
\* optional fraction is tried first and, when the `\n` after it fails, dropped.
MatchAt(s, i) ==
    LET noMatch  == [ok |-> FALSE, num |-> <<>>, body |-> <<>>, end |-> 0]
        wsStart  == i + Len(HEADING)
        numStart == SkipWhile(s, wsStart, Whitespace)
        intEnd   == SkipWhile(s, numStart, Digits)
        fracEnd  == IF intEnd <= Len(s) /\ s[intEnd] = "."
                    THEN SkipWhile(s, intEnd + 1, Digits) ELSE intEnd
        hasFrac  == fracEnd > intEnd + 1
        isNl(k)  == k <= Len(s) /\ s[k] = "\n"
        numEnd   == IF hasFrac /\ isNl(fracEnd) THEN fracEnd ELSE intEnd
        bodyEnd  == LazyBodyEnd(s, numEnd + 1)
    IN  IF /\ StartsWithAt(s, HEADING, i)
           /\ numStart > wsStart
           /\ intEnd > numStart
           /\ isNl(numEnd)
           /\ bodyEnd > 0
        THEN [ok   |-> TRUE,
              num  |-> SubSeq(s, numStart, numEnd - 1),
              body |-> SubSeq(s, numEnd + 1, bodyEnd - 1),
              end  |-> bodyEnd]
        ELSE noMatch

\* content.matchAll(...): the matches from left to right, each search starting
\* where the previous match ended (a match is never empty).
RECURSIVE MatchAll(_, _)
MatchAll(s, from) ==
    IF from > Len(s) THEN <<>>
    ELSE LET m == MatchAt(s, from)
         IN  IF m.ok THEN <<m>> \o MatchAll(s, m.end)
             ELSE MatchAll(s, from + 1)

extractPromptData(text) ==
    LET versionMatches == MatchAll(text, 1)
        n              == Len(versionMatches)
    IN  IF n = 0
        THEN [version |-> <<"0", ".", "0">>, details |-> Trim(text), fullContent |-> text]
        ELSE [version     |-> versionMatches[n].num,
              details     |-> Trim(versionMatches[n].body),
              fullContent |->
                  Join([k \in 1..n |->
                            HEADING \o <<" ">> \o versionMatches[k].num \o <<"\n">>
                                \o versionMatches[k].body],
                       <<"\n", "\n">>)]

(***************************************************************************)
(* Number.parseFloat and the sort of refresh()                             *)
(***************************************************************************)
DigitValue ==
    [c \in Digits |->
        CASE c = "0" -> 0 [] c = "1" -> 1 [] c = "2" -> 2 [] c = "3" -> 3 [] c = "4" -> 4
          [] c = "5" -> 5 [] c = "6" -> 6 [] c = "7" -> 7 [] c = "8" -> 8 [] c = "9" -> 9]

RECURSIVE Pow10(_)
Pow10(n) == IF n = 0 THEN 1 ELSE 10 * Pow10(n - 1)

\* The value of a run of decimal digits.
RECURSIVE DigitsValue(_)
DigitsValue(ds) ==
    IF Len(ds) = 0 THEN 0
    ELSE 10 * DigitsValue(SubSeq(ds, 1, Len(ds) - 1)) + DigitValue[ds[Len(ds)]]

\* How many fraction digits parseFloat reads from v.
FractionDigits(v) ==
    LET intEnd  == SkipWhile(v, 1, Digits)
        fracEnd == IF intEnd <= Len(v) /\ v[intEnd] = "."
                   THEN SkipWhile(v, intEnd + 1, Digits) ELSE intEnd
    IN  IF fracEnd > intEnd THEN fracEnd - intEnd - 1 ELSE 0

\* parseFloat(v) * 10^d for d >= FractionDigits(v): parseFloat reads the longest
\* prefix of the form digits[.digits]. Every version extractPromptData returns has
\* that form, so NaN does not arise.
ParseFloatScaled(v, d) ==
    LET intEnd == SkipWhile(v, 1, Digits)
        f      == FractionDigits(v)
    IN  DigitsValue(SubSeq(v, 1, intEnd - 1)) * Pow10(d)
            + DigitsValue(SubSeq(v, intEnd + 1, intEnd + f)) * Pow10(d - f)

\* A comparator that orders the version strings as text, as `b.version > a.version`
\* would: "9.5" sorts before "10.0".
RECURSIVE TextLess(_, _)
TextLess(x, y) ==
    IF Len(y) = 0 THEN FALSE
    ELSE IF Len(x) = 0 THEN TRUE
    ELSE IF x[1] = y[1] THEN TextLess(Tail(x), Tail(y))
    ELSE IF x[1] \in Digits /\ y[1] \in Digits THEN DigitValue[x[1]] < DigitValue[y[1]]
    ELSE y[1] \in Digits

CompareAsText(a, b) ==
    IF TextLess(b.version, a.version) THEN -1
    ELSE IF TextLess(a.version, b.version) THEN 1 ELSE 0

\* The comparator of refresh(): parseFloat(b.version) - parseFloat(a.version), up
\* to a positive factor.
CompareVersions(a, b) ==
    LET d  == IF FractionDigits(a.version) >= FractionDigits(b.version)
              THEN FractionDigits(a.version) ELSE FractionDigits(b.version)
        va == ParseFloatScaled(a.version, d)
        vb == ParseFloatScaled(b.version, d)
    IN  vb - va

\* Array.prototype.sort is stable: p goes after every element it does not precede.
RECURSIVE InsertSorted(_, _)
InsertSorted(sorted, p) ==
    IF Len(sorted) = 0 THEN <<p>>
    ELSE IF CompareVersions(sorted[Len(sorted)], p) <= 0 THEN Append(sorted, p)
    ELSE Append(InsertSorted(SubSeq(sorted, 1, Len(sorted) - 1), p), sorted[Len(sorted)])

\* this.prompts.sort((a, b) => ...)
RECURSIVE SortPrompts(_)
SortPrompts(ps) ==
    IF Len(ps) = 0 THEN <<>>
    ELSE InsertSorted(SortPrompts(SubSeq(ps, 1, Len(ps) - 1)), ps[Len(ps)])

(***************************************************************************)
(* SpecParse: extractPromptData on bounded documents                       *)
(***************************************************************************)
\* A document is at most MaxPieces pieces, each a heading line or body text.
MaxPieces == 4

Pieces ==
    { HEADING \o <<" ", "1", ".", "0", "\n">>,
      HEADING \o <<" ", "2", ".", "0", "\n">>,
      HEADING \o <<" ", "3", "\n">>,
      <<"F", "o", "o", "\n">>,
      <<"B", "a", "r">>,
      <<"f", "i", "z", "z">> }

RECURSIVE Concat(_)
Concat(parts) == IF Len(parts) = 0 THEN <<>> ELSE parts[1] \o Concat(Tail(parts))

Documents == { Concat(ps) : ps \in UNION { [1..n -> Pieces] : n \in 0..MaxPieces } }

ParseIdle == content = <<>> /\ parsed = <<>>

\* The call extractPromptData(content).
Extract ==
    /\ parsed = <<>>
    /\ parsed' = <<extractPromptData(content)>>
    /\ UNCHANGED <<content, wsVars, viewVars>>

(***************************************************************************)
(* SpecWorkspace: the command `Show Prompt Manager`                        *)
(***************************************************************************)
\* The type the view is registered under: registerView('prompt-manager', ...).
REGISTERED_TYPE == "prompt-manager"

\* What PromptView.getViewType() returns.
VIEW_TYPE_PROMPT == "prompt-manager-view"

\* Leaves the workspace can hold, and activateView invocations in flight.
MaxLeaves == 3
MaxCalls == 2

LeafIds == 1..MaxLeaves

WsIdle == leaves = [l \in LeafIds |-> "none"] /\ calls = <<>> /\ revealed = 0

\* workspace.getLeavesOfType(type): the leaves whose view's getViewType() is type.
getLeavesOfType(type) == { l \in LeafIds : leaves[l] = type }

\* The view a leaf hosts after setViewState({type}): the one the factory
\* registered under that type builds, known thereafter by its own getViewType().
HostedViewType(type) == IF type = REGISTERED_TYPE THEN VIEW_TYPE_PROMPT ELSE "empty"

\* The leaf activateView looks up first: getLeavesOfType('prompt-manager')[0].
ExistingLeaf ==
    LET found == getLeavesOfType(REGISTERED_TYPE)
    IN  IF found = {} THEN 0 ELSE CHOOSE l \in found : \A m \in found : l <= m

\* activateView up to its await. A leaf found by getLeavesOfType is revealed.
\* Otherwise getRightLeaf(false) gives null (l = 0: nothing happens) or an empty
\* leaf of the right side panel, an existing one or a new one, and setViewState is
\* awaited on it.
ActivateView ==
    /\ Len(calls) < MaxCalls
    /\ IF ExistingLeaf # 0
       THEN /\ revealed' = ExistingLeaf
            /\ UNCHANGED <<leaves, calls>>
       ELSE \E l \in LeafIds \cup {0} :
               IF l = 0
               THEN UNCHANGED <<leaves, calls, revealed>>
               ELSE /\ leaves[l] \in {"none", "empty"}
                    /\ leaves' = [leaves EXCEPT ![l] = "empty"]
                    /\ calls' = Append(calls, l)
                    /\ revealed' = revealed
    /\ UNCHANGED <<parseVars, viewVars>>

\* The awaited setViewState({type: 'prompt-manager', active: true}) completes; the
\* leaf is revealed.
SetViewStateDone(i) ==
    /\ i \in DOMAIN calls
    /\ leaves' = [leaves EXCEPT ![calls[i]] = HostedViewType(REGISTERED_TYPE)]
    /\ revealed' = calls[i]
    /\ calls' = SubSeq(calls, 1, i - 1) \o SubSeq(calls, i + 1, Len(calls))
    /\ UNCHANGED <<parseVars, viewVars>>

\* The user closes a panel no invocation is waiting on.
DetachLeaf(l) ==
    /\ leaves[l] # "none"
    /\ \A i \in DOMAIN calls : calls[i] # l
    /\ leaves' = [leaves EXCEPT ![l] = "none"]
    /\ revealed' = IF revealed = l THEN 0 ELSE revealed
    /\ calls' = calls
    /\ UNCHANGED <<parseVars, viewVars>>

(***************************************************************************)
(* Spec: the vault                                                         *)
(***************************************************************************)
\* The default promptFolderPath, 'prompts'.
PROMPTS == <<"p", "r", "o", "m", "p", "t", "s">>

\* The path of the vault's root folder.
ROOT == <<"/">>

\* The folders of the vault.
Folders == {ROOT, PROMPTS}

MD == <<"m", "d">>

\* String.prototype.lastIndexOf, 1-based, 0 when c does not occur.
RECURSIVE LastIndexOf(_, _)
LastIndexOf(s, c) ==
    IF Len(s) = 0 THEN 0
    ELSE IF s[Len(s)] = c THEN Len(s)
    ELSE LastIndexOf(SubSeq(s, 1, Len(s) - 1), c)

\* TFile.parent.path, TFile.basename and TFile.extension of the file at a path.
ParentPath(path) ==
    LET k == LastIndexOf(path, "/")
    IN  IF k = 0 THEN ROOT ELSE SubSeq(path, 1, k - 1)

FileName(path) == SubSeq(path, LastIndexOf(path, "/") + 1, Len(path))

Basename(path) ==
    LET n == FileName(path)
        d == LastIndexOf(n, ".")
    IN  IF d = 0 THEN n ELSE SubSeq(n, 1, d - 1)

Extension(path) ==
    LET n == FileName(path)
        d == LastIndexOf(n, ".")
    IN  IF d = 0 THEN <<>> ELSE SubSeq(n, d + 1, Len(n))

\* The path of file `name` directly inside folder.
ChildPath(folder, name) == IF folder = ROOT THEN name ELSE folder \o <<"/">> \o name

VaultPaths(v) == { v[i].path : i \in DOMAIN v }

TextOf(v, path) == v[CHOOSE i \in DOMAIN v : v[i].path = path].text

\* vault.getAbstractFileByPath: a folder, a file or null.
getAbstractFileByPath(v, path) ==
    IF path \in Folders THEN "folder"
    ELSE IF path \in VaultPaths(v) THEN "file"
    ELSE "null"

RemoveAt(s, i) == SubSeq(s, 1, i - 1) \o SubSeq(s, i + 1, Len(s))

\* The files the vault holds when the view is constructed, in getFiles() order.
DocA ==
    <<"#", "#", "#", " ", "V", "e", "r", "s", "i", "o", "n", " ", "9", ".", "5",
      "\n", "F", "o", "o", "\n", "#", "#", "#", " ", "V", "e", "r", "s", "i", "o",
      "n", " ", "1", "0", ".", "0", "\n", "B", "a", "r">>

DocD ==
    <<"#", "#", "#", " ", "V", "e", "r", "s", "i", "o", "n", " ", "1", "0", ".", "0",
      "\n", "f", "i", "z", "z">>

InitialVault ==
    << [path |-> ChildPath(PROMPTS, <<"a", ".", "m", "d">>), text |-> DocA],
       [path |-> ChildPath(PROMPTS, <<"D", ".", "m", "d">>), text |-> DocD],
       [path |-> ChildPath(PROMPTS, <<"t", ".", "t", "x", "t">>), text |-> <<"z">>] >>

\* What the settings tab, the New dialog and the search box are given.
SettingPaths == { <<>>, PROMPTS, ChildPath(PROMPTS, <<"a", ".", "m", "d">>) }

NameInputs == { <<>>, <<"n">> }

SearchInputs == { <<>>, <<"D">> }

\* The text New writes into the file it creates.
TEMPLATE ==
    <<"#", "#", "#", " ", "V", "e", "r", "s", "i", "o", "n", " ", "1", ".", "0",
      "\n", "\n", "N", "e", "w", " ", "p", "r", "o", "m", "p", "t", " ", "c", "o",
      "n", "t", "e", "n", "t">>

NOTICE_UNSET == "Please select a prompts folder in the plugin settings."

NOTICE_INVALID == "Invalid prompts folder selected."

(***************************************************************************)
(* Spec: refresh, render and filter                                        *)
(***************************************************************************)
\* Async handlers in flight at once.
MaxInFlight == 2

\* A guard that checks the setting and not the folder it names.
RefreshGuardUnsetOnly(path, v) == IF path = <<>> THEN "unset" ELSE "ok"

\* The two early returns of refresh().
RefreshGuard(path, v) ==
    IF path = <<>> THEN "unset"
    ELSE IF getAbstractFileByPath(v, path) # "folder" THEN "invalid"
    ELSE "ok"

\* The same two checks, in the New dialog's callback.
NewPromptGuard(path, v) ==
    IF path = <<>> THEN "unset"
    ELSE IF getAbstractFileByPath(v, path) # "folder" THEN "invalid"
    ELSE "ok"

GuardNotice(guard) ==
    IF guard = "unset" THEN <<NOTICE_UNSET>>
    ELSE IF guard = "invalid" THEN <<NOTICE_INVALID>>
    ELSE <<>>

\* mdFiles: the paths of the .md files whose parent is the folder, in getFiles() order.
ListMdFiles(v, folderPath) ==
    LET IsMdChild(f) == ParentPath(f.path) = folderPath /\ Extension(f.path) = MD
        files        == SelectSeq(v, IsMdChild)
    IN  [i \in DOMAIN files |-> files[i].path]

\* The record one callback of mdFiles.map builds from a file's text.
PromptRecord(path, text) ==
    LET d == extractPromptData(text)
    IN  [name |-> Basename(path), version |-> d.version, details |-> d.details,
         fullContent |-> d.fullContent, file |-> path]

\* A handler in flight. pc: "creating" (awaiting vault.create), "reading" (awaiting
\* Promise.all) or "render" (refresh returned, render() is next). results[k] is
\* <<>> while the read of mdFiles[k] is pending. overtaken and quiet are history:
\* a refresh started later has completed; nothing else has touched the vault, the
\* settings or the view since New was confirmed.
NewHandler(kind, name, folder, quiet) ==
    [kind |-> kind, pc |-> "render", name |-> name, folder |-> folder,
     mdFiles |-> <<>>, results |-> <<>>, overtaken |-> FALSE, quiet |-> quiet]

\* The handler after refresh() has run to its first await or to an early return.
StartRefresh(h, path, v) ==
    IF RefreshGuard(path, v) = "ok"
    THEN LET mdFiles == ListMdFiles(v, path)
         IN  [h EXCEPT !.pc = "reading", !.mdFiles = mdFiles,
                       !.results = [k \in DOMAIN mdFiles |-> <<>>]]
    ELSE [h EXCEPT !.pc = "render"]

Settled(h) == \A k \in DOMAIN h.results : h.results[k] # <<>>

\* The records of the reads that have completed, in mdFiles order.
RECURSIVE Collected(_)
Collected(results) ==
    IF Len(results) = 0 THEN <<>>
    ELSE Collected(SubSeq(results, 1, Len(results) - 1)) \o results[Len(results)]

\* this.prompts assigned as each read completes, then sorted.
PromptsPartial(current, h) == SortPrompts(Collected(h.results))

\* this.prompts while reads of refresh h are pending: Promise.all holds the records
\* back, and the field is not assigned before it resolves.
PromptsWhileReading(current, h) == current

\* A refresh that drops its result when a later-started refresh has completed.
LatestStartedWins(h, current, produced) == IF h.overtaken THEN current ELSE produced

\* this.prompts = await Promise.all(...): whatever refresh resolves assigns.
ResolvedPrompts(h, current, produced) == produced

MarkOvertaken(hs) ==
    [j \in DOMAIN hs |->
        IF hs[j].pc = "reading" THEN [hs[j] EXCEPT !.overtaken = TRUE] ELSE hs[j]]

Disturb(hs) == [j \in DOMAIN hs |-> [hs[j] EXCEPT !.quiet = FALSE]]

\* refresh() called by handler h, up to its first await, with hs the other
\* handlers in flight and v the vault it sees.
BeginRefresh(h, hs, v) ==
    LET path  == settings.promptFolderPath
        guard == RefreshGuard(path, v)
    IN  /\ notice' = GuardNotice(guard)
        /\ handlers' = IF guard = "ok" THEN Append(hs, StartRefresh(h, path, v))
                       ELSE Append(MarkOvertaken(hs), StartRefresh(h, path, v))
        /\ lastDone' = IF guard = "ok" THEN lastDone
                       ELSE <<[produced |-> prompts, overtaken |-> FALSE]>>
        /\ UNCHANGED <<prompts, listed>>

\* textContent of a table row or of a card.
RowText(mode, p) ==
    IF mode = "list"
    THEN p.name \o p.version \o <<"E", "d", "i", "t">> \o <<"C", "o", "p", "y">>
    ELSE p.name \o <<"v">> \o p.version \o p.details \o <<"C", "o", "p", "y">>

\* render(): the content is rebuilt from this.prompts, every row or card shown.
RenderDom(ps, vt) ==
    [mode |-> vt, rows |-> [i \in DOMAIN ps |-> [prompt |-> ps[i], display |-> ""]]]

\* A filter that compares the text as written.
ItemDisplayCaseSensitive(text, searchTerm) ==
    IF Includes(text, searchTerm) THEN "" ELSE "none"

\* item.style.display of one item in filterPrompts.
ItemDisplay(text, searchTerm) ==
    IF Includes(ToLowerCase(text), searchTerm) THEN "" ELSE "none"

\* filterPrompts: the items are selected by the current viewType.
filterPrompts(d, vt, searchTerm) ==
    IF d.mode = vt
    THEN [d EXCEPT !.rows =
             [i \in DOMAIN d.rows |->
                 [d.rows[i] EXCEPT
                     !.display = ItemDisplay(RowText(d.mode, d.rows[i].prompt), searchTerm)]]]
    ELSE d

ViewIdle ==
    /\ settings = [promptFolderPath |-> PROMPTS]
    /\ vault = InitialVault
    /\ opened = FALSE
    /\ prompts = <<>>
    /\ viewType = "list"
    /\ searchValue = <<>>
    /\ dom = [mode |-> "none", rows |-> <<>>]
    /\ handlers = <<>>
    /\ notice = <<>>
    /\ listed = [prompts |-> <<>>, dom |-> <<>>]
    /\ lastDone = <<>>

\* onOpen: the top container is built, then refresh() is awaited.
OnOpen ==
    /\ ~opened
    /\ opened' = TRUE
    /\ BeginRefresh(NewHandler("refresh", <<>>, <<>>, FALSE), handlers, vault)
    /\ UNCHANGED <<settings, vault, viewType, searchValue, dom, parseVars, wsVars>>

\* refreshButton.onclick.
ClickRefresh ==
    /\ opened
    /\ Len(handlers) < MaxInFlight
    /\ BeginRefresh(NewHandler("refresh", <<>>, <<>>, FALSE), Disturb(handlers), vault)
    /\ UNCHANGED <<settings, vault, opened, viewType, searchValue, dom,
                   parseVars, wsVars>>

\* The New dialog confirmed with name: the callback up to `await vault.create`.
ConfirmNew(name) ==
    /\ opened
    /\ Len(handlers) < MaxInFlight
    /\ LET path  == settings.promptFolderPath
           guard == NewPromptGuard(path, vault)
           file  == name \o <<".">> \o MD
           quiet == /\ handlers = <<>>
                    /\ file \notin VaultPaths(vault)
                    /\ ChildPath(path, file) \notin VaultPaths(vault)
       IN  IF name = <<>>
           THEN handlers' = handlers /\ notice' = <<>>
           ELSE IF guard # "ok"
           THEN /\ notice' = GuardNotice(guard)
                /\ handlers' = handlers
           ELSE /\ handlers' =
                       Append(Disturb(handlers),
                              [NewHandler("new", name, path, quiet) EXCEPT !.pc = "creating"])
                /\ notice' = <<>>
    /\ UNCHANGED <<settings, vault, opened, prompts, viewType, searchValue, dom,
                   listed, lastDone, parseVars, wsVars>>

\* vault.create(name + '.md', content) settles: it rejects when the path is taken;
\* otherwise the file exists and the callback goes on into refresh().
CreateDone(i) ==
    /\ i \in DOMAIN handlers
    /\ handlers[i].pc = "creating"
    /\ LET h    == handlers[i]
           file == h.name \o <<".">> \o MD
           rest == RemoveAt(handlers, i)
       IN  IF file \in VaultPaths(vault)
           THEN /\ handlers' = rest
                /\ notice' = <<>>
                /\ UNCHANGED <<vault, prompts, listed, lastDone>>
           ELSE /\ vault' = Append(vault, [path |-> file, text |-> TEMPLATE])
                /\ BeginRefresh(h, rest, vault')
    /\ UNCHANGED <<settings, opened, viewType, searchValue, dom, parseVars, wsVars>>

\* One vault.read of a refresh settles: with the file's text, or rejected when the
\* file is gone, which rejects Promise.all and with it refresh() and its caller.
ReadDone(i, k) ==
    /\ i \in DOMAIN handlers
    /\ handlers[i].pc = "reading"
    /\ k \in DOMAIN handlers[i].results
    /\ handlers[i].results[k] = <<>>
    /\ LET h    == handlers[i]
           path == h.mdFiles[k]
           read == [h EXCEPT !.results[k] = <<PromptRecord(path, TextOf(vault, path))>>]
       IN  IF path \in VaultPaths(vault)
           THEN /\ handlers' = [handlers EXCEPT ![i] = read]
                /\ prompts' = PromptsWhileReading(prompts, read)
                /\ listed' = IF prompts' = prompts THEN listed
                             ELSE [listed EXCEPT !.prompts = h.mdFiles]
           ELSE /\ handlers' = RemoveAt(handlers, i)
                /\ UNCHANGED <<prompts, listed>>
    /\ notice' = <<>>
    /\ UNCHANGED <<settings, vault, opened, viewType, searchValue, dom, lastDone,
                   parseVars, wsVars>>

\* Promise.all has resolved: this.prompts is assigned and sorted, refresh() returns.
RefreshResume(i) ==
    /\ i \in DOMAIN handlers
    /\ handlers[i].pc = "reading"
    /\ Settled(handlers[i])
    /\ LET h        == handlers[i]
           produced == SortPrompts(Collected(h.results))
       IN  /\ prompts' = ResolvedPrompts(h, prompts, produced)
           /\ handlers' =
                  [j \in DOMAIN handlers |->
                      IF j = i THEN [h EXCEPT !.pc = "render", !.mdFiles = <<>>, !.results = <<>>]
                      ELSE IF j < i /\ handlers[j].pc = "reading"
                      THEN [handlers[j] EXCEPT !.overtaken = TRUE]
                      ELSE handlers[j]]
           /\ listed' = [listed EXCEPT !.prompts = h.mdFiles]
           /\ lastDone' = <<[produced |-> produced, overtaken |-> h.overtaken]>>
    /\ notice' = <<>>
    /\ UNCHANGED <<settings, vault, opened, viewType, searchValue, dom, parseVars, wsVars>>

\* this.render() after the awaited refresh(): the handler ends.
Render(i) ==
    /\ i \in DOMAIN handlers
    /\ handlers[i].pc = "render"
    /\ dom' = RenderDom(prompts, viewType)
    /\ listed' = [listed EXCEPT !.dom = listed.prompts]
    /\ handlers' = RemoveAt(handlers, i)
    /\ notice' = <<>>
    /\ UNCHANGED <<settings, vault, opened, prompts, viewType, searchValue, lastDone, parseVars, wsVars>>

\* toggleViewButton.onclick.
ToggleView ==
    /\ opened
    /\ viewType' = IF viewType = "board" THEN "list" ELSE "board"
    /\ dom' = RenderDom(prompts, viewType')
    /\ listed' = [listed EXCEPT !.dom = listed.prompts]
    /\ notice' = <<>>
    /\ UNCHANGED <<settings, vault, opened, prompts, searchValue, handlers, lastDone, parseVars, wsVars>>

\* The search box's input event with its new value.
SearchInput(value) ==
    /\ opened
    /\ searchValue' = value
    /\ dom' = filterPrompts(dom, viewType, ToLowerCase(value))
    /\ notice' = <<>>
    /\ UNCHANGED <<settings, vault, opened, prompts, viewType, handlers, listed, lastDone, parseVars, wsVars>>

\* The settings tab's text field changes.
ChangeSetting(value) ==
    /\ value # settings.promptFolderPath
    /\ settings' = [settings EXCEPT !.promptFolderPath = value]
    /\ handlers' = Disturb(handlers)
    /\ notice' = <<>>
    /\ UNCHANGED <<vault, opened, prompts, viewType, searchValue, dom, listed, lastDone, parseVars, wsVars>>

\* A file of the vault is deleted outside the view.
ExternalDelete(k) ==
    /\ k \in DOMAIN vault
    /\ vault' = RemoveAt(vault, k)
    /\ handlers' = Disturb(handlers)
    /\ notice' = <<>>
    /\ UNCHANGED <<settings, opened, prompts, viewType, searchValue, dom, listed, lastDone, parseVars, wsVars>>

(***************************************************************************)
(* The specifications                                                      *)
(***************************************************************************)
InitParse == content \in Documents /\ parsed = <<>> /\ WsIdle /\ ViewIdle

NextParse == Extract

SpecParse == InitParse /\ [][NextParse]_vars

InitWorkspace == ParseIdle /\ WsIdle /\ ViewIdle

NextWorkspace ==
    \/ ActivateView
    \/ \E i \in 1..MaxCalls : SetViewStateDone(i)
    \/ \E l \in LeafIds : DetachLeaf(l)

SpecWorkspace == InitWorkspace /\ [][NextWorkspace]_vars

Init == ParseIdle /\ WsIdle /\ ViewIdle

Next ==
    \/ OnOpen
    \/ ClickRefresh
    \/ \E name \in NameInputs : ConfirmNew(name)
    \/ \E i \in 1..MaxInFlight : CreateDone(i)
    \/ \E i \in 1..MaxInFlight : \E k \in 1..Len(vault) : ReadDone(i, k)
    \/ \E i \in 1..MaxInFlight : RefreshResume(i)
    \/ \E i \in 1..MaxInFlight : Render(i)
    \/ ToggleView
    \/ \E value \in SearchInputs : SearchInput(value)
    \/ \E value \in SettingPaths : ChangeSetting(value)

Spec == Init /\ [][Next]_vars

\* Refreshes racing each other while files of the vault come and go.
NextRace ==
    \/ OnOpen
    \/ ClickRefresh
    \/ \E i \in 1..MaxInFlight : \E k \in 1..Len(vault) : ReadDone(i, k)
    \/ \E i \in 1..MaxInFlight : RefreshResume(i)
    \/ \E i \in 1..MaxInFlight : Render(i)
    \/ \E value \in SettingPaths : ChangeSetting(value)
    \/ \E k \in 1..Len(vault) : ExternalDelete(k)

SpecRace == Init /\ [][NextRace]_vars

(***************************************************************************)
(* Claims about the version parser (SpecParse)                             *)
(***************************************************************************)
\* Where the number of a heading `### Version <number>` that starts at i ends (the
\* position after it), 0 when no such heading starts at i: the literal, one space,
\* digits with an optional fraction, then the end of the line or of the text.
HeadingNumberEnd(s, i) ==
    LET numStart == i + Len(HEADING) + 1
        intEnd   == SkipWhile(s, numStart, Digits)
        fracEnd  == IF intEnd <= Len(s) /\ s[intEnd] = "."
                    THEN SkipWhile(s, intEnd + 1, Digits) ELSE intEnd
        numEnd   == IF fracEnd > intEnd + 1 THEN fracEnd ELSE intEnd
    IN  IF /\ StartsWithAt(s, HEADING \o <<" ">>, i)
           /\ intEnd > numStart
           /\ (numEnd > Len(s) \/ s[numEnd] = "\n")
        THEN numEnd ELSE 0

\* The numbers of the headings of s, in document order.
RECURSIVE HeadingNumbersFrom(_, _)
HeadingNumbersFrom(s, i) ==
    IF i > Len(s) THEN <<>>
    ELSE IF HeadingNumberEnd(s, i) > 0
    THEN <<SubSeq(s, i + Len(HEADING) + 1, HeadingNumberEnd(s, i) - 1)>>
             \o HeadingNumbersFrom(s, i + 1)
    ELSE HeadingNumbersFrom(s, i + 1)

HeadingNumbers(s) == HeadingNumbersFrom(s, 1)

\* The text that follows the last heading line of s.
LastSectionBody(s) ==
    LET last == CHOOSE i \in 1..Len(s) :
                    /\ HeadingNumberEnd(s, i) > 0
                    /\ \A j \in (i + 1)..Len(s) : HeadingNumberEnd(s, j) = 0
    IN  SubSeq(s, HeadingNumberEnd(s, last) + 1, Len(s))

ExampleDocument ==
    HEADING \o <<" ", "1", ".", "0", "\n", "F", "o", "o", "\n">>
        \o HEADING \o <<" ", "2", ".", "0", "\n", "B", "a", "r">>

\* C1: for a document with N >= 1 headings `### Version <number>`, fullContent
\* holds exactly those N headings in their order, and version and details are the
\* number and the trimmed body of the heading that comes last in the document; the
\* example document yields version "2.0" and details "Bar".
C1_LastHeadingWins ==
    (parsed # <<>> /\ HeadingNumbers(content) # <<>>) =>
        /\ HeadingNumbers(parsed[1].fullContent) = HeadingNumbers(content)
        /\ parsed[1].version = HeadingNumbers(content)[Len(HeadingNumbers(content))]
        /\ parsed[1].details = Trim(LastSectionBody(content))
        /\ (content = ExampleDocument =>
                /\ parsed[1].version = <<"2", ".", "0">>
                /\ parsed[1].details = <<"B", "a", "r">>)

(***************************************************************************)
(* Claims about the plugin shell (SpecWorkspace)                           *)
(***************************************************************************)
PromptManagerLeaves == { l \in LeafIds : leaves[l] = HostedViewType(REGISTERED_TYPE) }

\* C4: whatever activateView invocations have run or are in flight, at most one
\* leaf of the workspace hosts a Prompt Manager view.
C4_AtMostOneLeaf == Cardinality(PromptManagerLeaves) <= 1

(***************************************************************************)
(* Claims about the view (Spec, SpecRace)                                  *)
(***************************************************************************)
NewFileOf(h) == h.name \o <<".">> \o MD

\* C2: a New confirmed with a non-empty name n while the configured folder F is set
\* and exists creates exactly one file, F/n.md, holding the template, and no other.
C2_NewFileInFolder ==
    [][\A i \in DOMAIN handlers :
          (CreateDone(i) /\ vault' # vault) =>
              vault' = Append(vault, [path |-> ChildPath(handlers[i].folder,
                                                         NewFileOf(handlers[i])),
                                      text |-> TEMPLATE])]_vars

NameHas(row, value) == Includes(ToLowerCase(row.prompt.name), ToLowerCase(value))

TextHas(mode, row, value) ==
    Includes(ToLowerCase(RowText(mode, row.prompt)), ToLowerCase(value))

\* After a search event: row n is shown and every other row is hidden.
OnlyShown(rows, n) ==
    /\ rows[n].display = ""
    /\ \A m \in DOMAIN rows : m # n => rows[m].display = "none"

\* C3 as stated: a search string that is, case-insensitively, part of the name of
\* exactly one record leaves that record's row or card shown and hides the rest.
C3_SearchByName ==
    [][\A value \in SearchInputs :
          SearchInput(value) =>
              \A n \in DOMAIN dom.rows :
                  (/\ NameHas(dom.rows[n], value)
                   /\ \A m \in DOMAIN dom.rows : m # n => ~NameHas(dom.rows[m], value))
                      => OnlyShown(dom'.rows, n)]_vars

\* C3 amended: a search string that is, case-insensitively, part of the rendered
\* text of exactly one row or card leaves that one shown and hides the rest.
C3_SearchByRenderedText ==
    [][\A value \in SearchInputs :
          SearchInput(value) =>
              \A n \in DOMAIN dom.rows :
                  (/\ TextHas(dom.mode, dom.rows[n], value)
                   /\ \A m \in DOMAIN dom.rows :
                          m # n => ~TextHas(dom.mode, dom.rows[m], value))
                      => OnlyShown(dom'.rows, n)]_vars

\* A search has left exactly one of several cards shown: the one whose text has it.
C3_Witness ==
    /\ searchValue # <<>>
    /\ Len(dom.rows) >= 2
    /\ \E n \in DOMAIN dom.rows :
          /\ OnlyShown(dom.rows, n)
          /\ TextHas(dom.mode, dom.rows[n], searchValue)
          /\ \A m \in DOMAIN dom.rows : m # n => ~TextHas(dom.mode, dom.rows[m], searchValue)

\* The configured path names a folder of the vault.
FolderUsable ==
    settings.promptFolderPath # <<>> /\ settings.promptFolderPath \in Folders

\* A step that calls refresh(): onOpen, a Refresh click, or New once its file exists.
RefreshCalled ==
    \/ OnOpen
    \/ ClickRefresh
    \/ \E i \in DOMAIN handlers : (CreateDone(i) /\ vault' # vault)

\* C5: refresh() called while the configured path is empty or names no folder
\* returns to its caller (which goes on to render), shows a notice, starts no file
\* read and leaves this.prompts as it was.
C5_InvalidFolderRefresh ==
    [][(RefreshCalled /\ ~FolderUsable) =>
          /\ prompts' = prompts
          /\ notice' = IF settings.promptFolderPath = <<>>
                       THEN <<NOTICE_UNSET>> ELSE <<NOTICE_INVALID>>
          /\ handlers' # <<>>
          /\ handlers'[Len(handlers')].pc = "render"
          /\ handlers'[Len(handlers')].mdFiles = <<>>
          /\ \A j \in DOMAIN handlers' :
                 handlers'[j].pc = "reading" =>
                     \E x \in DOMAIN handlers : /\ handlers[x].mdFiles = handlers'[j].mdFiles
                                                /\ handlers[x].results = handlers'[j].results]_vars

\* A refresh has just returned with a notice, leaving a stale collection in place.
C5_Witness ==
    /\ ~FolderUsable
    /\ notice # <<>>
    /\ Len(prompts) > 0
    /\ handlers # <<>>
    /\ handlers[Len(handlers)].pc = "render"
    /\ lastDone = <<[produced |-> prompts, overtaken |-> FALSE]>>

DisplayedFiles == { dom.rows[r].prompt.file : r \in DOMAIN dom.rows }

\* C6: what render() has put on screen is the initial empty collection or the whole
\* result of one refresh, one record for every file that refresh listed; never the
\* records of only some of its reads.
C6_NoPartialRender ==
    /\ Len(dom.rows) = Len(listed.dom)
    /\ DisplayedFiles = { listed.dom[k] : k \in DOMAIN listed.dom }

\* A full collection is on screen while a refresh has one read back and one pending.
C6_Witness ==
    /\ Len(dom.rows) >= 2
    /\ \E j \in DOMAIN handlers :
          /\ handlers[j].pc = "reading"
          /\ \E k \in DOMAIN handlers[j].results : handlers[j].results[k] = <<>>
          /\ \E k \in DOMAIN handlers[j].results : handlers[j].results[k] # <<>>

DisplayedPrompts == [r \in DOMAIN dom.rows |-> dom.rows[r].prompt]

\* C7: once every overlapping refresh has completed and rendered, this.prompts and
\* the rows on screen are what the refresh that completed last produced, whether it
\* was started first or last.
C7_LastCompletedWins ==
    (opened /\ handlers = <<>> /\ lastDone # <<>>) =>
        /\ prompts = lastDone[1].produced
        /\ DisplayedPrompts = prompts

\* All refreshes are done, and the one that completed last had been started before
\* another that completed earlier; its records are on screen.
C7_Witness ==
    /\ opened
    /\ handlers = <<>>
    /\ lastDone # <<>>
    /\ lastDone[1].overtaken
    /\ Len(lastDone[1].produced) > 0
    /\ DisplayedPrompts = lastDone[1].produced

\* parseFloat(v) >= parseFloat(w).
NumericGE(v, w) ==
    LET d == IF FractionDigits(v) >= FractionDigits(w)
             THEN FractionDigits(v) ELSE FractionDigits(w)
    IN  ParseFloatScaled(v, d) >= ParseFloatScaled(w, d)

\* C8: the rows on screen are in descending order of the numeric value of version.
C8_DescendingVersions ==
    \A r \in 1..(Len(dom.rows) - 1) :
        NumericGE(dom.rows[r].prompt.version, dom.rows[r + 1].prompt.version)

\* "10.0" is on screen right before "9.5".
C8_Witness ==
    \E r \in 1..(Len(dom.rows) - 1) :
        /\ dom.rows[r].prompt.version = <<"1", "0", ".", "0">>
        /\ dom.rows[r + 1].prompt.version = <<"9", ".", "5">>

\* C9: when New is confirmed with a name n while the folder is valid, no n.md exists
\* and no refresh is in flight, and nothing else happens before the handler's own
\* refresh and render, that render shows a record named n.
C9_NewPromptDisplayed ==
    [][\A i \in DOMAIN handlers :
          (Render(i) /\ handlers[i].kind = "new" /\ handlers[i].quiet) =>
              \E r \in DOMAIN dom'.rows : dom'.rows[r].prompt.name = handlers[i].name]_vars

\* C10: in every state a row or card is hidden exactly when its text does not
\* contain, case-insensitively, what the search box holds.
C10_FilterFollowsSearchBox ==
    \A r \in DOMAIN dom.rows :
        (dom.rows[r].display = "none") <=> ~TextHas(dom.mode, dom.rows[r], searchValue)

====
